---- MODULE Spec2Model ----
(***************************************************************************)
(* Model of the beat/onset fusion scripts downbeats.py and exportBeats.py. *)
(*                                                                         *)
(* Times are decimal literals with two decimals (the 1/fps grid of the     *)
(* estimators at fps = 100), written as a count n of centiseconds.  The    *)
(* program holds each of them as the IEEE-754 double nearest to n/100, so  *)
(* every comparison of the code is computed on those doubles (see the      *)
(* section "double arithmetic").  Beat position labels are whole-valued    *)
(* floats, written in tenths (10 is the label 1.0).  Strengths are values  *)
(* of the onset activation curve, written as small naturals.               *)
(***************************************************************************)
EXTENDS Integers, Sequences, FiniteSets, TLC

\* ------------------------------------------------------------- bounds
MaxBeats == 3
MaxOnsets == 2
MaxExportBeats == 4
CurveLen == 260
ShortCurveLen == 180

\* -------------------------------------------------- program constants
DefaultTolerance == 2
MainTolerance == 2

\* ---------------------------------------------------- double arithmetic
RECURSIVE Pow2(_)
Pow2(k) == IF k <= 0 THEN 1 ELSE 2 * Pow2(k - 1)

RECURSIVE Pow2Mod(_, _)
Pow2Mod(k, m) == IF k <= 0 THEN 1 % m ELSE (2 * Pow2Mod(k - 1, m)) % m

RECURSIVE ILog2(_)
ILog2(n) == IF n < 2 THEN 0 ELSE 1 + ILog2(n \div 2)

RECURSIVE NegExp(_)
NegExp(n) == IF n >= 100 THEN 0 ELSE 1 + NegExp(2 * n)

Max2(a, b) == IF a >= b THEN a ELSE b

AbsInt(a) == IF a >= 0 THEN a ELSE 0 - a

\* The binary exponent e of n/100 (2^e <= n/100 < 2^(e+1)), n >= 1.
BinExp(n) == IF n >= 100 THEN ILog2(n \div 100) ELSE 0 - NegExp(n)

\* The double nearest n/100 is Mant(n) / 2^Scale(n) with a 53-bit Mant(n).
Scale(n) == IF n = 0 THEN 0 ELSE 52 - BinExp(n)

\* Err(n) = 100 * Mant(n) - n * 2^Scale(n): the rounding error of the
\* literal n/100, in units of 2^-Scale(n) / 100.  It lies in -49..49.
Err(n) ==
    IF n = 0 THEN 0
    ELSE LET r == (n * Pow2Mod(Scale(n), 100)) % 100
         IN  IF r = 0 THEN 0 ELSE IF r < 50 THEN 0 - r ELSE 100 - r

\* Whether Mant(n) is odd (decides round-half-to-even ties at n/100).
MantOdd(n) == ((n * Pow2Mod(Scale(n), 200) + Err(n)) % 200) = 100

\* Sign (-1, 0, 1) of  abs(a/100 - b/100) - t/100  as the doubles compute
\* it: both literals rounded, the difference rounded, then compared with
\* the rounded t/100.  Defined for 1 <= t < 100, t/100 no power of two.
\* When a and b are not exactly t apart the rounding errors (below 1e-15)
\* cannot change the outcome; when they are, the outcome is the sign of the
\* rounded difference of the three rounding errors.
AbsDiffCmp(a, b, t) ==
    LET k  == AbsInt(a - b)
        hi == Max2(a, b)
        lo == IF a >= b THEN b ELSE a
    IN  IF k > t THEN 1
        ELSE IF k < t THEN 0 - 1
        ELSE IF lo = 0 THEN 0
        ELSE LET S   == Max2(Max2(Scale(hi), Scale(lo)), Scale(t))
                 N   == Err(hi) * Pow2(S - Scale(hi))
                        - Err(lo) * Pow2(S - Scale(lo))
                        - Err(t) * Pow2(S - Scale(t))
                 den == 100 * Pow2(S - Scale(t))
             IN  IF 2 * N > den \/ (2 * N = den /\ MantOdd(t)) THEN 1
                 ELSE IF 2 * N < 0 - den \/ (2 * N = 0 - den /\ MantOdd(t))
                      THEN 0 - 1
                 ELSE 0

\* abs(a - b) > tolerance on doubles (downbeats.py lines 110, 128).
AbsDiffGT(a, b, tol) ==
    IF tol < 0 THEN TRUE
    ELSE IF tol = 0 THEN a # b
    ELSE AbsDiffCmp(a, b, tol) = 1

\* abs(a - b) < tolerance on doubles (downbeats.py lines 103, 184, 204).
AbsDiffLT(a, b, tol) ==
    IF tol <= 0 THEN FALSE
    ELSE AbsDiffCmp(a, b, tol) = 0 - 1

\* int(time * fps): the double n/100 times 100, rounded to a double, then
\* truncated.  The product is n + Err(n)/2^Scale(n); it rounds to a double
\* below n exactly when the error is negative and exceeds half the spacing
\* of the doubles just below n.
FrameIdx(n) ==
    IF n = 0 THEN 0
    ELSE LET isPow == (Pow2(ILog2(n)) = n)
             gap   == Pow2(ILog2(n) - BinExp(n) - (IF isPow THEN 1 ELSE 0))
         IN  IF Err(n) < 0 /\ 2 * AbsInt(Err(n)) > gap THEN n - 1 ELSE n

\* ------------------------------------------------------------ sequences
RECURSIVE SetToSortedSeq(_)
SetToSortedSeq(T) ==
    IF T = {} THEN <<>>
    ELSE LET m == CHOOSE x \in T : \A y \in T : x <= y
         IN  <<m>> \o SetToSortedSeq(T \ {m})

\* The strictly increasing sequences over S of length at most n.
IncSeqs(S, n) == {SetToSortedSeq(T) : T \in {U \in SUBSET S : Cardinality(U) <= n}}

Min2(a, b) == IF a <= b THEN a ELSE b

\* ---------------------------------------------------------------- inputs
\* What the external estimators return: the (time, position) records of
\* the beat tracker in chronological order, the onset times of the peak
\* picker in chronological order, and the onset activation curve.
BeatTimeSet == {100, 101, 150, 200}
OnsetTimeSet == {29, 152, 160, 161, 300}
ExportTimeSet == {100, 150, 200, 250, 300}
PositionLabels == {10, 20, 30, 40}
DetectLabels == {10, 20, 30}
ToleranceSet == {0, DefaultTolerance}
CurveSet == {[f \in 1..CurveLen |-> (f - 1) % 3], [f \in 1..ShortCurveLen |-> 1]}

BeatInfos(times, labels, n) ==
    UNION {{[i \in 1..Len(ts) |-> [time |-> ts[i], beat_idx |-> ls[i]]] :
              ls \in [1..Len(ts) -> labels]} : ts \in IncSeqs(times, n)}

VARIABLES
    downbeat_info,              \* tracker output: <<[time, beat_idx]>>
    onset_times,                \* peak picker output
    onset_activation,           \* activation curve (index f+1 holds frame f)
    tolerance,                  \* the tolerance argument, in centiseconds
    pc,                         \* position in downbeats.py
    downbeat_times_with_strength,
    beat_times_with_strength,
    all_onsets_with_strength,
    all_attacks,
    strong_attacks,
    onset_times_with_strength,
    all_events,                 \* the script's timeline
    printed,                    \* the printed lines, with the strong flag
    epc,                        \* position in exportBeats.py
    current_measure,
    beat_data

vars == <<downbeat_info, onset_times, onset_activation, tolerance, pc,
          downbeat_times_with_strength, beat_times_with_strength,
          all_onsets_with_strength, all_attacks, strong_attacks,
          onset_times_with_strength, all_events, printed, epc,
          current_measure, beat_data>>

inputVars == <<downbeat_info, onset_times, onset_activation, tolerance>>
detectVars == <<downbeat_times_with_strength, beat_times_with_strength,
                all_onsets_with_strength, all_attacks, strong_attacks,
                onset_times_with_strength>>
mainVars == <<all_events, printed>>
exportVars == <<epc, current_measure, beat_data>>

\* ----------------------------------------- detect_beats_and_strong_attacks
\* 0 <= frame_idx < len(onset_activation)
FrameInRange(time, act) == 0 <= FrameIdx(time) /\ FrameIdx(time) < Len(act)

\* strength = 0.0, replaced by the curve value when the frame is in range
BeatStrength(time, act) ==
    IF FrameInRange(time, act) THEN act[FrameIdx(time) + 1] ELSE 0

IsDownbeatIdx(beat_idx) == beat_idx = 10

NormalizeBeats(info, act) ==
    [i \in 1..Len(info) |->
        [time |-> info[i].time, strength |-> BeatStrength(info[i].time, act)]]

NormalizeDownbeats(info, act) ==
    LET Test(r) == IsDownbeatIdx(r.beat_idx)
        dbs == SelectSeq(info, Test)
    IN  [i \in 1..Len(dbs) |->
            [time |-> dbs[i].time, strength |-> BeatStrength(dbs[i].time, act)]]

\* an onset is appended only when its frame is in range
NormalizeOnsets(onsets, act) ==
    LET Test(t) == FrameInRange(t, act)
        kept == SelectSeq(onsets, Test)
    IN  [i \in 1..Len(kept) |->
            [time |-> kept[i], strength |-> act[FrameIdx(kept[i]) + 1]]]

\* any(abs(db_time - time) < tolerance for db_time, _ in downbeats)
IsDownbeatNear(time, dbs, tol) ==
    \E j \in 1..Len(dbs) : AbsDiffLT(dbs[j].time, time, tol)

AttackType(time, dbs, tol) ==
    IF IsDownbeatNear(time, dbs, tol) THEN "downbeat" ELSE "beat"

\* np.all(np.abs(beat_times_array - time) > tolerance)
NoBeatWithin(time, beats, tol) ==
    \A j \in 1..Len(beats) : AbsDiffGT(beats[j].time, time, tol)

KeptOnsets(onsets, beats, tol) ==
    LET Test(o) == NoBeatWithin(o.time, beats, tol)
    IN  SelectSeq(onsets, Test)

MergeAttacks(beats, dbs, onsets, tol) ==
    [i \in 1..Len(beats) |->
        [time |-> beats[i].time, strength |-> beats[i].strength,
         type |-> AttackType(beats[i].time, dbs, tol)]]
    \o
    LET kept == KeptOnsets(onsets, beats, tol)
    IN  [i \in 1..Len(kept) |->
            [time |-> kept[i].time, strength |-> kept[i].strength,
             type |-> "onset"]]

\* list.sort(key=strength, reverse=True) is stable: equal strengths keep
\* their order in the list.  x goes behind every element at least as strong.
\* Variant: equal strengths ordered by time instead of by place in the list.
InsertByStrengthThenTime(s, x) ==
    LET pos == Cardinality({i \in 1..Len(s) :
                   \/ s[i].strength > x.strength
                   \/ s[i].strength = x.strength /\ s[i].time <= x.time})
    IN  SubSeq(s, 1, pos) \o <<x>> \o SubSeq(s, pos + 1, Len(s))

InsertByStrength(s, x) ==
    LET pos == Cardinality({i \in 1..Len(s) : s[i].strength >= x.strength})
    IN  SubSeq(s, 1, pos) \o <<x>> \o SubSeq(s, pos + 1, Len(s))

RECURSIVE SortByStrengthDesc(_)
SortByStrengthDesc(s) ==
    IF s = <<>> THEN <<>>
    ELSE InsertByStrength(SortByStrengthDesc(SubSeq(s, 1, Len(s) - 1)), s[Len(s)])

\* list.sort(key=time), stable
InsertByTime(s, x) ==
    LET pos == Cardinality({i \in 1..Len(s) : s[i].time <= x.time})
    IN  SubSeq(s, 1, pos) \o <<x>> \o SubSeq(s, pos + 1, Len(s))

RECURSIVE SortByTime(_)
SortByTime(s) ==
    IF s = <<>> THEN <<>>
    ELSE InsertByTime(SortByTime(SubSeq(s, 1, Len(s) - 1)), s[Len(s)])

\* all_attacks[:num_strong_attacks] when there is a downbeat, else []
SelectStrong(sorted, dbs) ==
    IF Len(dbs) > 0 THEN SubSeq(sorted, 1, Min2(Len(dbs), Len(sorted))) ELSE <<>>

Normalize ==
    /\ pc = "start"
    /\ beat_times_with_strength' = NormalizeBeats(downbeat_info, onset_activation)
    /\ downbeat_times_with_strength' =
           NormalizeDownbeats(downbeat_info, onset_activation)
    /\ all_onsets_with_strength' = NormalizeOnsets(onset_times, onset_activation)
    /\ pc' = "normalized"
    /\ UNCHANGED <<inputVars, all_attacks, strong_attacks,
                   onset_times_with_strength, mainVars, exportVars>>

Merge ==
    /\ pc = "normalized"
    /\ all_attacks' = MergeAttacks(beat_times_with_strength,
                                   downbeat_times_with_strength,
                                   all_onsets_with_strength, tolerance)
    /\ pc' = "merged"
    /\ UNCHANGED <<inputVars, downbeat_times_with_strength,
                   beat_times_with_strength, all_onsets_with_strength,
                   strong_attacks, onset_times_with_strength, mainVars,
                   exportVars>>

Rank ==
    /\ pc = "merged"
    /\ all_attacks' = SortByStrengthDesc(all_attacks)
    /\ strong_attacks' =
           SortByTime(SelectStrong(all_attacks', downbeat_times_with_strength))
    /\ pc' = "ranked"
    /\ UNCHANGED <<inputVars, downbeat_times_with_strength,
                   beat_times_with_strength, all_onsets_with_strength,
                   onset_times_with_strength, mainVars, exportVars>>

Return ==
    /\ pc = "ranked"
    /\ onset_times_with_strength' =
           [i \in 1..Len(KeptOnsets(all_onsets_with_strength,
                                    beat_times_with_strength, tolerance)) |->
               [time |-> KeptOnsets(all_onsets_with_strength,
                                    beat_times_with_strength, tolerance)[i].time,
                strength |-> KeptOnsets(all_onsets_with_strength,
                                        beat_times_with_strength,
                                        tolerance)[i].strength]]
    /\ pc' = "returned"
    /\ UNCHANGED <<inputVars, downbeat_times_with_strength,
                   beat_times_with_strength, all_onsets_with_strength,
                   all_attacks, strong_attacks, mainVars, exportVars>>

\* ------------------------------------------------ downbeats.py __main__
\* bar_number = 0; for i, db: if time > db_time: bar_number = i + 1 else break
\* Variant: the bar number without the + 1.
BarIndexZero(i) == i

BarIndex(i) == i + 1

RECURSIVE BarScan(_, _, _, _)
BarScan(time, dbs, i, bar) ==
    IF i > Len(dbs) THEN bar
    ELSE IF time > dbs[i].time THEN BarScan(time, dbs, i + 1, BarIndex(i - 1))
    ELSE bar

BarNumber(time, dbs) == BarScan(time, dbs, 1, 0)

\* any(abs(time - st) < tolerance for st in times)
NearAny(time, times) ==
    \E j \in 1..Len(times) : AbsDiffLT(time, times[j], MainTolerance)

TimesOf(s) == [i \in 1..Len(s) |-> s[i].time]

DownbeatEvents(dbs) ==
    [i \in 1..Len(dbs) |->
        [time |-> dbs[i].time, type |-> "downbeat", bar |-> i,
         strength |-> dbs[i].strength]]

BeatEvents(beats, dbs) ==
    LET Test(b) == \A j \in 1..Len(dbs) : dbs[j].time # b.time
        plain == SelectSeq(beats, Test)
    IN  [i \in 1..Len(plain) |->
            [time |-> plain[i].time, type |-> "beat",
             bar |-> BarNumber(plain[i].time, dbs),
             strength |-> plain[i].strength]]

OnsetEvents(onsets, strong, dbs) ==
    LET IsOnset(a) == a.type = "onset"
        strong_onset_times == TimesOf(SelectSeq(strong, IsOnset))
        Test(o) == NearAny(o.time, strong_onset_times)
        listed == SelectSeq(onsets, Test)
    IN  [i \in 1..Len(listed) |->
            [time |-> listed[i].time, type |-> "onset",
             bar |-> BarNumber(listed[i].time, dbs),
             strength |-> listed[i].strength]]

StrengthLabel(time, strong) == IF NearAny(time, TimesOf(strong)) THEN 1 ELSE 0

MainEvents ==
    /\ pc = "returned"
    /\ tolerance = DefaultTolerance
    /\ all_events' =
           SortByTime(DownbeatEvents(downbeat_times_with_strength)
                      \o BeatEvents(beat_times_with_strength,
                                    downbeat_times_with_strength)
                      \o OnsetEvents(onset_times_with_strength, strong_attacks,
                                     downbeat_times_with_strength))
    /\ pc' = "events"
    /\ UNCHANGED <<inputVars, detectVars, printed, exportVars>>

MainPrint ==
    /\ pc = "events"
    /\ printed' =
           [i \in 1..Len(all_events) |->
               [time |-> all_events[i].time, type |-> all_events[i].type,
                bar |-> all_events[i].bar, strength |-> all_events[i].strength,
                strong |-> StrengthLabel(all_events[i].time, strong_attacks)]]
    /\ pc' = "printed"
    /\ UNCHANGED <<inputVars, detectVars, all_events, exportVars>>

\* ------------------------------------------------- export_beats_to_json
\* int(position) of a whole-valued float label
IntOfPosition(position) == position \div 10

IsFirstBeat(position) == position = 10

\* Variant: the counter incremented at every record.
ExportMeasureEveryBeat(measure, position) == measure + 1

ExportMeasure(measure, position) ==
    IF IsFirstBeat(position) THEN measure + 1 ELSE measure

\* Variant: beatInMeasure 0 before the first downbeat.
ExportBeatInMeasureZero(measure, position) ==
    IF measure = 0 THEN 0
    ELSE IF IsFirstBeat(position) THEN 1 ELSE IntOfPosition(position)

\* measure is the counter after the increment
ExportBeatInMeasure(measure, position) ==
    LET first == IF IsFirstBeat(position) THEN 1 ELSE IntOfPosition(position)
    IN  IF measure = 0 THEN IntOfPosition(position) ELSE first

ExportStart ==
    /\ epc = "wait"
    /\ pc = "printed" \/ (pc = "returned" /\ tolerance # DefaultTolerance)
    /\ epc' = "loop"
    /\ UNCHANGED <<inputVars, pc, detectVars, mainVars, current_measure, beat_data>>

ExportStep ==
    /\ epc = "loop"
    /\ Len(beat_data) < Len(downbeat_info)
    /\ LET rec == downbeat_info[Len(beat_data) + 1]
       IN  /\ current_measure' = ExportMeasure(current_measure, rec.beat_idx)
           /\ beat_data' = Append(beat_data,
                  [time |-> rec.time, measure |-> current_measure',
                   beatInMeasure |->
                       ExportBeatInMeasure(current_measure', rec.beat_idx)])
    /\ UNCHANGED <<inputVars, pc, detectVars, mainVars, epc>>

ExportFinish ==
    /\ epc = "loop"
    /\ Len(beat_data) = Len(downbeat_info)
    /\ epc' = "done"
    /\ UNCHANGED <<inputVars, pc, detectVars, mainVars, current_measure, beat_data>>

\* ------------------------------------------------------- specifications
InitState ==
    /\ downbeat_times_with_strength = <<>>
    /\ beat_times_with_strength = <<>>
    /\ all_onsets_with_strength = <<>>
    /\ all_attacks = <<>>
    /\ strong_attacks = <<>>
    /\ onset_times_with_strength = <<>>
    /\ all_events = <<>>
    /\ printed = <<>>
    /\ current_measure = 0
    /\ beat_data = <<>>

Init ==
    /\ downbeat_info \in BeatInfos(BeatTimeSet, DetectLabels, MaxBeats)
    /\ onset_times \in IncSeqs(OnsetTimeSet, MaxOnsets)
    /\ onset_activation \in CurveSet
    /\ tolerance \in ToleranceSet
    /\ pc = "start"
    /\ epc = "wait"
    /\ InitState

Next ==
    \/ Normalize
    \/ Merge
    \/ Rank
    \/ Return
    \/ MainEvents
    \/ MainPrint
    \/ ExportStart
    \/ ExportStep
    \/ ExportFinish

Spec == Init /\ [][Next]_vars

\* exportBeats.py on its own
InitExport ==
    /\ downbeat_info \in BeatInfos(ExportTimeSet, PositionLabels, MaxExportBeats)
    /\ onset_times = <<>>
    /\ onset_activation = <<>>
    /\ tolerance = DefaultTolerance
    /\ pc = "off"
    /\ epc = "loop"
    /\ InitState

NextExport ==
    \/ ExportStep
    \/ ExportFinish

SpecExport == InitExport /\ [][NextExport]_vars

\* ----------------------------------------------------------- properties
AfterNormalize == pc \in {"normalized", "merged", "ranked", "returned", "events", "printed"}
AfterMerge == pc \in {"merged", "ranked", "returned", "events", "printed"}
AfterRank == pc \in {"ranked", "returned", "events", "printed"}
AfterReturn == pc \in {"returned", "events", "printed"}

MeasureBefore(k) == IF k = 1 THEN 0 ELSE beat_data[k - 1].measure

\* C1: along the list emitted by export_beats_to_json the measure never
\* decreases; it is one more than the previous record's measure (0 before
\* the first record) at every record whose position label is 1, and equal
\* to it at every other record.
C1_MeasureMonotonic ==
    \A k \in 1..Len(beat_data) :
        /\ beat_data[k].measure >= MeasureBefore(k)
        /\ downbeat_info[k].beat_idx = 10
               => beat_data[k].measure = MeasureBefore(k) + 1
        /\ downbeat_info[k].beat_idx # 10
               => beat_data[k].measure = MeasureBefore(k)

C1_Witness ==
    /\ epc = "done"
    /\ Len(beat_data) >= 3
    /\ beat_data[Len(beat_data)].measure >= 2
    /\ \E k \in 1..Len(beat_data) : downbeat_info[k].beat_idx # 10

OnsetTimesIn(s) == {s[i].time : i \in {j \in 1..Len(s) : s[j].type = "onset"}}
BeatTimesIn(s) == {s[i].time : i \in {j \in 1..Len(s) : s[j].type # "onset"}}

\* C2: an onset whose time is at most `tolerance` away from a beat or a
\* downbeat (a distance equal to the tolerance included, as 1.52 against
\* 1.5 with tolerance 0.02) is in neither the merged attack list nor the
\* returned onset list, and every beat and downbeat is in the merged list.
C2_Precedence ==
    AfterReturn =>
        /\ \A i \in 1..Len(onset_times) :
               (\E j \in 1..Len(downbeat_info) :
                    AbsInt(onset_times[i] - downbeat_info[j].time) <= tolerance)
               => /\ onset_times[i] \notin OnsetTimesIn(all_attacks)
                  /\ \A k \in 1..Len(onset_times_with_strength) :
                         onset_times_with_strength[k].time # onset_times[i]
        /\ \A j \in 1..Len(downbeat_info) :
               downbeat_info[j].time \in BeatTimesIn(all_attacks)

Budget == Len(downbeat_times_with_strength)

StrongFlagged == Cardinality({i \in 1..Len(printed) : printed[i].strong = 1})

\* C3: the number of selected strong attacks, and the number of printed
\* timeline events flagged strong, never exceeds the budget (the number of
\* downbeats) and equals min(budget, number of merged events).
C3_BudgetBound ==
    /\ AfterRank =>
           /\ Len(strong_attacks) <= Budget
           /\ Len(strong_attacks) = Min2(Budget, Len(all_attacks))
    /\ pc = "printed" =>
           /\ StrongFlagged <= Budget
           /\ StrongFlagged = Min2(Budget, Len(all_attacks))

Selected(x) == \E i \in 1..Len(strong_attacks) : strong_attacks[i] = x

IndexOfTime(time, times) == CHOOSE k \in 1..Len(times) : times[k] = time

\* The place of an event in the merged list before the sort: the beats in
\* input order, then the surviving onsets in input order.
MergePos(x) ==
    IF x.type = "onset"
    THEN Len(downbeat_info) + IndexOfTime(x.time, onset_times)
    ELSE IndexOfTime(x.time, TimesOf(downbeat_info))

C5_OnePerAttack ==
    AfterMerge /\ tolerance > 0 =>
        \A i, j \in 1..Len(all_attacks) :
            /\ i # j
            /\ all_attacks[i].type = "onset"
            /\ all_attacks[j].type = "onset"
            => AbsInt(all_attacks[i].time - all_attacks[j].time) > tolerance

\* C6: the merged event of a tracker record has kind "downbeat" if and only
\* if the record's position label is 1, whatever the tolerance and however
\* close the record lies to a downbeat.
C6_KindByLabel ==
    AfterMerge =>
        \A i \in 1..Len(downbeat_info) :
            \A j \in 1..Len(all_attacks) :
                /\ all_attacks[j].type # "onset"
                /\ all_attacks[j].time = downbeat_info[i].time
                => (all_attacks[j].type = "downbeat"
                    <=> downbeat_info[i].beat_idx = 10)

\* The strength the curve holds at frame round(time * fps), 0 outside it.
RoundedStrength(time) ==
    IF time < Len(onset_activation) THEN onset_activation[time + 1] ELSE 0

\* C7: every beat, downbeat and onset stays in its stream with the curve
\* value at frame round(time * fps), or with strength 0 when that frame is
\* outside the curve.
C7_StrengthLookup ==
    AfterNormalize =>
        /\ Len(beat_times_with_strength) = Len(downbeat_info)
        /\ \A i \in 1..Len(beat_times_with_strength) :
               beat_times_with_strength[i].strength
                   = RoundedStrength(beat_times_with_strength[i].time)
        /\ \A i \in 1..Len(onset_times) :
               \E k \in 1..Len(all_onsets_with_strength) :
                   /\ all_onsets_with_strength[k].time = onset_times[i]
                   /\ all_onsets_with_strength[k].strength
                          = RoundedStrength(onset_times[i])

\* C8: with tolerance <= 0 the function ends in an InvalidParameter error:
\* it never gets to build the merged list, the strong attacks or the onset
\* list, nor to return them.
C8_InvalidTolerance == tolerance <= 0 => ~AfterMerge

Scenario == <<[time |-> 100, beat_idx |-> 10], [time |-> 150, beat_idx |-> 20],
              [time |-> 200, beat_idx |-> 30], [time |-> 250, beat_idx |-> 40]>>

\* C9: the counter starts at 0; a record with position label 1 gets
\* beatInMeasure 1 and the incremented measure, any other record gets
\* beatInMeasure int(position) and the current measure; a record has
\* measure 0 exactly when no downbeat has been visited up to and including
\* it; the beats (1.0,1),(1.5,2),(2.0,3),(2.5,4) come out with measures
\* 1,1,1,1 and beatInMeasure 1,2,3,4.
C9_Indexer ==
    /\ beat_data = <<>> => current_measure = 0
    /\ \A k \in 1..Len(beat_data) :
           LET p == downbeat_info[k].beat_idx
               r == beat_data[k]
           IN  /\ p = 10 => r.beatInMeasure = 1 /\ r.measure = MeasureBefore(k) + 1
               /\ p # 10 => r.beatInMeasure = p \div 10 /\ r.measure = MeasureBefore(k)
               /\ r.measure = 0 <=> \A j \in 1..k : downbeat_info[j].beat_idx # 10
    /\ epc = "done" /\ downbeat_info = Scenario =>
           /\ [k \in 1..4 |-> beat_data[k].measure] = <<1, 1, 1, 1>>
           /\ [k \in 1..4 |-> beat_data[k].beatInMeasure] = <<1, 2, 3, 4>>

C9_Witness ==
    /\ epc = "done"
    /\ downbeat_info = Scenario
    /\ Len(beat_data) = 4

EarlierDownbeats(time) ==
    Cardinality({j \in 1..Len(downbeat_times_with_strength) :
                     downbeat_times_with_strength[j].time < time})

ExportMeasureOf(time) ==
    beat_data[IndexOfTime(time, TimesOf(beat_data))].measure

\* C10: every beat and onset of the script's timeline carries as bar number
\* the number of downbeats strictly earlier than it, and for a beat this is
\* the measure export_beats_to_json gives the same beat.
C10_BarNumbers ==
    /\ \A i \in 1..Len(all_events) :
           all_events[i].type # "downbeat"
           => all_events[i].bar = EarlierDownbeats(all_events[i].time)
    /\ epc = "done" =>
           \A i \in 1..Len(all_events) :
               all_events[i].type = "beat"
               => all_events[i].bar = ExportMeasureOf(all_events[i].time)

C10_Witness ==
    /\ epc = "done"
    /\ pc = "printed"
    /\ \E i \in 1..Len(all_events) :
           all_events[i].type = "beat" /\ all_events[i].bar >= 1
    /\ \E i \in 1..Len(all_events) :
           all_events[i].type = "onset" /\ all_events[i].bar >= 1
====
